---- MODULE Spec2Model ----
(***************************************************************************)
(* Work-email finder: pattern engine, SMTP RCPT prober, source-IP pool and *)
(* the verification controller, modelled from the JavaScript sources.      *)
(*                                                                         *)
(* Strings are sequences of one-character strings, so that lower-casing,   *)
(* concatenation, split('@'), startsWith and endsWith are computed and not *)
(* assumed.  A pattern is a sequence whose elements are placeholders       *)
(* ("{firstName}", ...) or literal characters.                             *)
(***************************************************************************)
EXTENDS Integers, Sequences, FiniteSets, TLC

VARIABLES
    \* ---- pattern engine harness (SpecPattern)
    ppc, pT, pFirst, pLast, pEmail, pDerived,
    \* ---- one SMTP probe (SpecSmtp): the closure of smtpVerify
    sock,            \* "idle", "connecting", "open", "destroyed", "errored"
    step,            \* the step counter of the data handler, 0..4
    responseBuffer,  \* the bytes received since the last complete reply
    timerArmed,      \* timeoutId names a pending timer
    timerAt,         \* the time at which the pending timer fires
    sent,            \* the commands written to the socket, in order
    verdict,         \* the value the promise resolved with
    sNow,            \* wall clock of the probe, ms
    lastInbound,     \* time of the connect or of the last inbound chunk
    rcptReply,       \* the reply that was classified in step 3
    refusedAt,       \* the first of the steps 1 and 2 in which a reply that
                     \* starts with "4" or "5" was handled, 0 when none
    blockedAt,       \* the steps in which the data handler called
                     \* logger.blockedIP
    \* ---- the source-IP pool and its callers (SpecPool)
    ips,             \* IPPoolManager.ips
    lastUsedTimes,   \* IPPoolManager.lastUsedTimes
    currentIndex,    \* IPPoolManager.currentIndex
    pNow,            \* Date.now(), ms
    vpc,             \* per caller of verifyEmailsInParallel: "idle",
                     \* "running" or "returned"
    vEmails,         \* per caller: the emails argument
    vSlots,          \* per caller and email position: the state of the
                     \* callback of batch.map for that email
    vFound,          \* per caller: foundValidEmail
    vResults,        \* per caller: the results Map, in insertion order
    acqGap,          \* per IP: ms between its last two acquisitions
    \* ---- the controller and the repositories (Spec)
    companies,       \* the Company collection, in insertion order
    patterns,        \* the Pattern collection: pattern -> usageCount
    persons,         \* the Person collection, in insertion order
    catchAll,        \* the CatchAllDomain collection: domain -> attempts
    dbClock,         \* what new Date() returns, as a count of writes
    pc,              \* per request slot: where findWorkEmail stands
    rq,              \* per request slot: the locals of findWorkEmail
    resp,            \* per request slot: the response that was sent
    started          \* number of requests received so far

patVars == <<ppc, pT, pFirst, pLast, pEmail, pDerived>>

smtpVars == <<sock, step, responseBuffer, timerArmed, timerAt, sent, verdict,
              sNow, lastInbound, rcptReply, refusedAt, blockedAt>>

poolVars == <<ips, lastUsedTimes, currentIndex, pNow, vpc, vEmails, vSlots,
              vFound, vResults, acqGap>>

ctlVars == <<companies, patterns, persons, catchAll, dbClock, pc, rq, resp,
             started>>

vars == <<patVars, smtpVars, poolVars, ctlVars>>

notPatVars == <<smtpVars, poolVars, ctlVars>>
notSmtpVars == <<patVars, poolVars, ctlVars>>
notPoolVars == <<patVars, smtpVars, ctlVars>>
notCtlVars == <<patVars, smtpVars, poolVars>>

(***************************************************************************)
(* A component that is not the subject of a specification stays at rest    *)
(***************************************************************************)

NoVerdict == [valid |-> FALSE, reason |-> "PENDING"]

PatIdle ==
    /\ ppc = "off"
    /\ pT = <<>>
    /\ pFirst = <<>>
    /\ pLast = <<>>
    /\ pEmail = <<>>
    /\ pDerived = <<>>

SmtpIdle ==
    /\ sock = "idle"
    /\ step = 0
    /\ responseBuffer = <<>>
    /\ timerArmed = FALSE
    /\ timerAt = 0
    /\ sent = <<>>
    /\ verdict = NoVerdict
    /\ sNow = 0
    /\ lastInbound = 0
    /\ rcptReply = <<>>
    /\ refusedAt = 0
    /\ blockedAt = {}

PoolIdle ==
    /\ ips = <<>>
    /\ lastUsedTimes = <<>>
    /\ currentIndex = 0
    /\ pNow = 0
    /\ vpc = <<>>
    /\ vEmails = <<>>
    /\ vSlots = <<>>
    /\ vFound = <<>>
    /\ vResults = <<>>
    /\ acqGap = <<>>

CtlIdle ==
    /\ companies = <<>>
    /\ patterns = <<>>
    /\ persons = <<>>
    /\ catchAll = <<>>
    /\ dbClock = 0
    /\ pc = <<>>
    /\ rq = <<>>
    /\ resp = <<>>
    /\ started = 0

(***************************************************************************)
(* Strings                                                                 *)
(***************************************************************************)

\* String.prototype.toLowerCase on one character
LowerChar(c) ==
    CASE c = "A" -> "a"
      [] c = "B" -> "b"
      [] c = "D" -> "d"
      [] c = "Spam" -> "spam"
      [] c = "Connection" -> "connection"
      [] c = "ECONNRESET" -> "econnreset"
      [] OTHER -> c

toLowerCase(s) == [i \in 1..Len(s) |-> LowerChar(s[i])]

\* p occurs in s
IsSubstring(p, s) ==
    \E i \in 0..(Len(s) - Len(p)) : SubSeq(s, i + 1, i + Len(p)) = p

\* String.prototype.charAt(0): the empty string when there is no character
charAt0(s) == IF Len(s) = 0 THEN <<>> ELSE <<s[1]>>

\* index of the first element of s equal to x, 0 when there is none
IndexOf(s, x) ==
    IF \E i \in 1..Len(s) : s[i] = x
    THEN CHOOSE i \in 1..Len(s) : s[i] = x /\ \A j \in 1..(i - 1) : s[j] # x
    ELSE 0

\* String.prototype.replace(placeholder, str): the first occurrence only
replace(pat, placeholder, str) ==
    LET i == IndexOf(pat, placeholder)
    IN  IF i = 0 THEN pat
        ELSE SubSeq(pat, 1, i - 1) \o str \o SubSeq(pat, i + 1, Len(pat))

\* email.split('@')[0]
LocalPartOf(email) ==
    LET i == IndexOf(email, "@")
    IN  IF i = 0 THEN email ELSE SubSeq(email, 1, i - 1)

\* email.split('@')[1]; "undefined" when the address has no '@'
DomainPartOf(email) ==
    LET i == IndexOf(email, "@")
        rest == SubSeq(email, i + 1, Len(email))
        j == IndexOf(rest, "@")
    IN  IF i = 0 THEN <<"undefined">>
        ELSE IF j = 0 THEN rest ELSE SubSeq(rest, 1, j - 1)

(***************************************************************************)
(* Pattern engine                                                          *)
(***************************************************************************)

FN == "{firstName}"
LN == "{lastName}"
FI == "{firstInitial}"
LI == "{lastInitial}"

\* the ten templates, in the order derivePatternFromEmail declares them
Templates ==
    << <<FN, ".", LN>>,
       <<FN, LN>>,
       <<FI, ".", LN>>,
       <<FI, LN>>,
       <<FN, "_", LN>>,
       <<FN>>,
       <<LN, ".", FN>>,
       <<LN, FN>>,
       <<LN, FI>>,
       <<FI, LI>> >>

TemplateSet == {Templates[i] : i \in 1..Len(Templates)}

\* findWorkEmail step 5: the chain of replace() calls that turns a stored
\* pattern into a candidate (the result carries no "@domain")
expandPattern(pattern, firstName, lastName) ==
    replace(
      replace(
        replace(
          replace(pattern, FN, toLowerCase(firstName)),
          LN, toLowerCase(lastName)),
        FI, toLowerCase(charAt0(firstName))),
      LI, toLowerCase(charAt0(lastName)))

\* the keys of the object literal of derivePatternFromEmail, in source order
DeriveKeys(firstName, lastName) ==
    LET f  == toLowerCase(firstName)
        l  == toLowerCase(lastName)
        fi == charAt0(f)
        li == charAt0(l)
    IN  << f \o <<".">> \o l,
           f \o l,
           fi \o <<".">> \o l,
           fi \o l,
           f \o <<"_">> \o l,
           f,
           l \o <<".">> \o f,
           l \o f,
           l \o fi,
           fi \o li >>

\* a derive that recognises no template and returns the raw local-part
deriveRawLocalPart(email, firstName, lastName) == LocalPartOf(email)

\* the same object literal with two values exchanged
derivePatternFromEmailSwapped(email, firstName, lastName) ==
    LET keys == DeriveKeys(firstName, lastName)
        vals == [Templates EXCEPT ![3] = Templates[4], ![4] = Templates[3]]
        localPart == LocalPartOf(email)
        hits == {i \in 1..Len(keys) : keys[i] = localPart}
    IN  IF hits = {} THEN localPart
        ELSE vals[CHOOSE i \in hits : \A j \in hits : j <= i]

\* derivePatternFromEmail: an object literal keeps, for a key written twice,
\* the value written last; a local-part that is no key is returned as it is
derivePatternFromEmail(email, firstName, lastName) ==
    LET keys == DeriveKeys(firstName, lastName)
        localPart == LocalPartOf(email)
        hits == {i \in 1..Len(keys) : keys[i] = localPart}
    IN  IF hits = {} THEN localPart
        ELSE Templates[CHOOSE i \in hits : \A j \in hits : j <= i]

(***************************************************************************)
(* Bounds of the inputs                                                    *)
(***************************************************************************)

MaxNameLen == 2

NameChars == {"a", "b", "A"}

RECURSIVE SeqsOfLen(_, _)
SeqsOfLen(S, n) ==
    IF n = 0 THEN {<<>>}
    ELSE {<<c>> \o t : c \in S, t \in SeqsOfLen(S, n - 1)}

\* the validator accepts names of length >= 2 only
Names == UNION {SeqsOfLen(NameChars, n) : n \in 2..MaxNameLen}

(***************************************************************************)
(* SMTP prober: smtpVerify                                                 *)
(***************************************************************************)

IdleTimeout == 10000

\* granularity of the probe's clock
SmtpTickMs == IdleTimeout \div 2

MaxSmtpTicks == 3

MaxBufLen == 6

CR == "\r"
LF == "\n"

\* the block detection patterns; a word is one element of a string
IP_BLOCK_PATTERNS ==
    { <<"blocked">>, <<"blacklisted">>, <<"banned">>, <<"denied">>,
      <<"rejected">>, <<"spam">>, <<"authentication", " ", "required">>,
      <<"connection", " ", "refused">> }

\* IP_BLOCK_PATTERNS.some(pattern => text.toLowerCase().includes(
\* pattern.toLowerCase()))
isBlocked(text) ==
    \E pattern \in IP_BLOCK_PATTERNS :
        IsSubstring(toLowerCase(pattern), toLowerCase(text))

\* responseBuffer.endsWith('\r\n')
EndsWithCRLF(s) ==
    /\ Len(s) >= 2
    /\ s[Len(s) - 1] = CR
    /\ s[Len(s)] = LF

\* String.prototype.startsWith
startsWith(s, prefix) ==
    /\ Len(s) >= Len(prefix)
    /\ SubSeq(s, 1, Len(prefix)) = prefix

\* a promise that takes the value of every call of resolve()
ResolveAgain(current, v) == v

\* a promise settles once: later calls of resolve() change nothing
Resolve(current, v) == IF current = NoVerdict THEN v ELSE current

\* case 3 of the switch with the 553 test left out
ClassifyWithout553(response) ==
    IF startsWith(response, <<"2", "5", "0">>)
    THEN [valid |-> TRUE, reason |-> "NONE"]
    ELSE IF \/ startsWith(response, <<"5", "5", "0">>)
            \/ startsWith(response, <<"5", "5", "1">>)
    THEN [valid |-> FALSE, reason |-> "INVALID_RECIPIENT"]
    ELSE IF startsWith(response, <<"4", "5", "2">>)
    THEN [valid |-> FALSE, reason |-> "FULL_MAILBOX"]
    ELSE [valid |-> FALSE, reason |-> "UNKNOWN_ERROR"]

\* case 3 of the switch: the verdict for the reply to RCPT TO
Classify(response) ==
    IF startsWith(response, <<"2", "5", "0">>)
    THEN [valid |-> TRUE, reason |-> "NONE"]
    ELSE IF \/ startsWith(response, <<"5", "5", "0">>)
            \/ startsWith(response, <<"5", "5", "1">>)
            \/ startsWith(response, <<"5", "5", "3">>)
    THEN [valid |-> FALSE, reason |-> "INVALID_RECIPIENT"]
    ELSE IF startsWith(response, <<"4", "5", "2">>)
    THEN [valid |-> FALSE, reason |-> "FULL_MAILBOX"]
    ELSE [valid |-> FALSE, reason |-> "UNKNOWN_ERROR"]

\* the switch with a QUIT written again for a reply received after QUIT
WrittenQuitAgain(st) ==
    CASE st = 0 -> <<"HELO">>
      [] st = 1 -> <<"MAIL FROM">>
      [] st = 2 -> <<"RCPT TO">>
      [] OTHER -> <<"QUIT">>

\* the socket.write of each case of the switch
Written(st) ==
    CASE st = 0 -> <<"HELO">>
      [] st = 1 -> <<"MAIL FROM">>
      [] st = 2 -> <<"RCPT TO">>
      [] st = 3 -> <<"QUIT">>
      [] OTHER -> <<>>

\* the assignment to step of each case of the switch
NextStep(st) == IF st < 4 THEN st + 1 ELSE st

\* complete replies, pieces of replies, and a bare line end
Replies ==
    { <<"2", "5", "0", CR, LF>>,
      <<"5", "5", "0", CR, LF>>,
      <<"5", "5", "1", CR, LF>>,
      <<"5", "5", "3", CR, LF>>,
      <<"4", "5", "2", CR, LF>>,
      <<"4", "5", "0", CR, LF>> }

Pieces == { <<"2">>, <<"5", "5">>, <<"3", CR, LF>> }

Chunks == Replies \cup Pieces

\* new net.Socket(), the handlers installed, socket.connect() called
SmtpInit ==
    /\ sock = "connecting"
    /\ step = 0
    /\ responseBuffer = <<>>
    /\ timerArmed = FALSE
    /\ timerAt = 0
    /\ sent = <<>>
    /\ verdict = NoVerdict
    /\ sNow = 0
    /\ lastInbound = 0
    /\ rcptReply = <<>>
    /\ refusedAt = 0
    /\ blockedAt = {}

\* the connect callback: setupTimeout()
SmtpConnect ==
    /\ sock = "connecting"
    /\ sock' = "open"
    /\ timerArmed' = TRUE
    /\ timerAt' = sNow + IdleTimeout
    /\ lastInbound' = sNow
    /\ UNCHANGED <<step, responseBuffer, sent, verdict, sNow, rcptReply,
                   refusedAt, blockedAt>>
    /\ UNCHANGED notSmtpVars

\* socket.on('data'): the timer is cleared first; only a buffer that ends
\* with CRLF is handled as a reply and only then is the timer set again
SmtpData(chunk) ==
    /\ sock = "open"
    /\ Len(responseBuffer) + Len(chunk) <= MaxBufLen
    /\ lastInbound' = sNow
    /\ LET buf == responseBuffer \o chunk
       IN  IF EndsWithCRLF(buf)
           THEN /\ responseBuffer' = <<>>
                /\ sent' = sent \o Written(step)
                /\ verdict' = IF step = 3 THEN Resolve(verdict, Classify(buf))
                              ELSE verdict
                /\ rcptReply' = IF step = 3 THEN buf ELSE rcptReply
                /\ refusedAt' = IF /\ refusedAt = 0
                                   /\ step \in {1, 2}
                                   /\ \/ startsWith(buf, <<"4">>)
                                      \/ startsWith(buf, <<"5">>)
                                THEN step ELSE refusedAt
                /\ blockedAt' = IF isBlocked(buf)
                                THEN blockedAt \cup {step} ELSE blockedAt
                /\ sock' = IF step = 4 THEN "destroyed" ELSE sock
                /\ step' = NextStep(step)
                /\ timerArmed' = TRUE
                /\ timerAt' = sNow + IdleTimeout
           ELSE /\ responseBuffer' = buf
                /\ timerArmed' = FALSE
                /\ UNCHANGED <<sent, verdict, rcptReply, sock, step, timerAt,
                               refusedAt, blockedAt>>
    /\ UNCHANGED sNow
    /\ UNCHANGED notSmtpVars

\* the timer callback of setupTimeout
SmtpTimeout ==
    /\ timerArmed
    /\ sNow >= timerAt
    /\ timerArmed' = FALSE
    /\ sock' = IF sock \in {"connecting", "open"} THEN "destroyed" ELSE sock
    /\ verdict' = Resolve(verdict, [valid |-> FALSE, reason |-> "TIMEOUT"])
    /\ UNCHANGED <<step, responseBuffer, timerAt, sent, sNow, lastInbound,
                   rcptReply, refusedAt, blockedAt>>
    /\ UNCHANGED notSmtpVars

\* error.message of the transport errors
ErrorMessages ==
    { <<"read", " ", "ECONNRESET">>, <<"Connection", " ", "refused">> }

\* socket.on('error'): the socket is closed by the runtime, the timer stays
SmtpError(message) ==
    /\ sock \in {"connecting", "open"}
    /\ sock' = "errored"
    /\ verdict' = Resolve(verdict,
                          [valid |-> FALSE, reason |-> "CONNECTION_ERROR",
                           isBlocked |-> isBlocked(message)])
    /\ UNCHANGED <<step, responseBuffer, timerArmed, timerAt, sent, sNow,
                   lastInbound, rcptReply, refusedAt, blockedAt>>
    /\ UNCHANGED notSmtpVars

\* time passes; a pending timer fires when it is due
SmtpTick ==
    /\ sock # "idle"
    /\ sNow < MaxSmtpTicks * SmtpTickMs
    /\ ~(timerArmed /\ sNow >= timerAt)
    /\ sNow' = sNow + SmtpTickMs
    /\ UNCHANGED <<sock, step, responseBuffer, timerArmed, timerAt, sent,
                   verdict, lastInbound, rcptReply, refusedAt, blockedAt>>
    /\ UNCHANGED notSmtpVars

SmtpNext ==
    \/ SmtpConnect
    \/ \E chunk \in Chunks : SmtpData(chunk)
    \/ SmtpTimeout
    \/ \E message \in ErrorMessages : SmtpError(message)
    \/ SmtpTick

InitSmtp == SmtpInit /\ PatIdle /\ PoolIdle /\ CtlIdle

SpecSmtp == InitSmtp /\ [][SmtpNext]_vars

\* the event loop and the network stack: time passes, a timer that is due
\* fires, and a connection attempt comes to an end; the server is free to
\* send or not to send
InitSmtpFair == SmtpInit /\ PatIdle /\ PoolIdle /\ CtlIdle

SpecSmtpFair ==
    /\ InitSmtpFair
    /\ [][SmtpNext]_vars
    /\ WF_vars(SmtpTick)
    /\ WF_vars(SmtpTimeout)
    /\ WF_vars(SmtpConnect)

(***************************************************************************)
(* SpecSmtpBlock: smtpVerify with a server whose replies may carry a       *)
(* block signal                                                            *)
(***************************************************************************)

\* an acceptance, and a refusal that names the reason in its text
BlockChunks ==
    { <<"2", "5", "0", CR, LF>>,
      <<"5", "5", "4", "Spam", CR, LF>> }

SmtpBlockNext ==
    \/ SmtpConnect
    \/ \E chunk \in BlockChunks : SmtpData(chunk)
    \/ SmtpTimeout
    \/ \E message \in ErrorMessages : SmtpError(message)
    \/ SmtpTick

InitSmtpBlock == SmtpInit /\ PatIdle /\ PoolIdle /\ CtlIdle

SpecSmtpBlock == InitSmtpBlock /\ [][SmtpBlockNext]_vars

\* C4: an open, unresolved probe is never idle for more than 10 s, and a
\* TIMEOUT verdict comes with a destroyed socket
C4_IdleTimeout ==
    /\ (sock = "open" /\ verdict = NoVerdict) =>
           sNow - lastInbound <= IdleTimeout
    /\ verdict.reason = "TIMEOUT" => sock = "destroyed"

\* the first three characters of a reply
Take3(s) == SubSeq(s, 1, IF Len(s) < 3 THEN Len(s) ELSE 3)

\* the verdict the classification table gives for a three-character code
VerdictOfCode(code) ==
    CASE code = <<"2", "5", "0">> -> [valid |-> TRUE, reason |-> "NONE"]
      [] code \in {<<"5", "5", "0">>, <<"5", "5", "1">>, <<"5", "5", "3">>} ->
             [valid |-> FALSE, reason |-> "INVALID_RECIPIENT"]
      [] code = <<"4", "5", "2">> -> [valid |-> FALSE, reason |-> "FULL_MAILBOX"]
      [] OTHER -> [valid |-> FALSE, reason |-> "UNKNOWN_ERROR"]

\* C5: once the reply to RCPT TO has been handled, the verdict of the probe
\* is the one the table gives for the first three characters of that reply
C5_VerdictFromCode ==
    rcptReply # <<>> => verdict = VerdictOfCode(Take3(rcptReply))

\* a 553 reply to RCPT TO was handled and classified as a rejection
C5_Witness ==
    /\ rcptReply = <<"5", "5", "3", CR, LF>>
    /\ verdict = [valid |-> FALSE, reason |-> "INVALID_RECIPIENT"]
    /\ step = 4

IsPrefix(s, t) == Len(s) <= Len(t) /\ SubSeq(t, 1, Len(s)) = s

\* C6: what was written to the socket is a prefix of HELO, MAIL FROM,
\* RCPT TO, QUIT: each once, in order, no DATA, nothing after QUIT
C6_OnlyFourVerbsInOrder ==
    IsPrefix(sent, <<"HELO", "MAIL FROM", "RCPT TO", "QUIT">>)

\* the server answered QUIT and the socket was destroyed after four commands
C6_Witness ==
    /\ sent = <<"HELO", "MAIL FROM", "RCPT TO", "QUIT">>
    /\ sock = "destroyed"
    /\ step = 4
    /\ verdict.reason # "TIMEOUT"

\* the reply to RCPT TO has been classified
Classified == rcptReply # <<>>

\* C25: the verdict of a probe is final: once there is a verdict it never
\* changes, and after the reply to RCPT TO has been classified no timeout,
\* error or further data makes the probe write anything after its one QUIT
\* or go back to an earlier step.
C25_VerdictIsFinal ==
    [][/\ verdict # NoVerdict => verdict' = verdict
       /\ Classified => /\ sent' = sent
                        /\ step' = step
                        /\ rcptReply' = rcptReply
                        /\ sock' # "connecting"]_vars

\* the idle timer fired after a valid verdict had been given, and the
\* verdict is still the valid one
C25_Witness ==
    /\ Classified
    /\ verdict = [valid |-> TRUE, reason |-> "NONE"]
    /\ sent = <<"HELO", "MAIL FROM", "RCPT TO", "QUIT">>
    /\ sock = "destroyed"
    /\ ~timerArmed

\* C26: MAIL FROM is sent only after a 2xx reply to HELO and RCPT TO only
\* after a 2xx reply to MAIL FROM: once a 4xx or 5xx reply was handled in
\* step 1 (HELO sent) or step 2 (MAIL FROM sent), no further command has been
\* sent and the verdict is not valid=true.
C26_CommandsOnlyAfter2xx ==
    refusedAt # 0 => (Len(sent) <= refusedAt /\ ~verdict.valid)

\* the observed time is over while the idle timer is pending: the timer
\* resolves the probe within the next 10 s
TimerPendingAtHorizon ==
    /\ timerArmed
    /\ sNow = MaxSmtpTicks * SmtpTickMs

\* C27: every probe that is started eventually resolves with a verdict,
\* whatever the server does (or, at the end of the observed time, has its
\* idle timer pending).
C27_EveryProbeResolves ==
    <>(verdict # NoVerdict \/ TimerPendingAtHorizon)

\* a reply with a block signal was handled before or with the verdict
BlockSeenInReply == \E s \in blockedAt : s <= 3

\* the verdict carries the block flag
CarriesBlockFlag == "isBlocked" \in DOMAIN verdict /\ verdict.isBlocked

\* C28: when a reply handled by the probe contained one of the block
\* substrings, the verdict of the probe carries the block flag.
C28_BlockFlagOnVerdict ==
    (verdict # NoVerdict /\ BlockSeenInReply) => CarriesBlockFlag

(***************************************************************************)
(* Source-IP pool: IPPoolManager                                           *)
(***************************************************************************)

Cooldown == 500

\* granularity of the pool's clock
PoolTickMs == Cooldown \div 2

MaxPoolTicks == 2

\* number of addresses every caller hands to verifyEmailsInParallel
MaxEmails == 4

\* the pool configured in emailVerifier.js
ConfiguredIPs == <<"108.165.213.192", "166.88.142.147", "166.88.142.148">>

Callers == {"A", "B"}

IPSet(pool) == {pool[i] : i \in 1..Len(pool)}

NoSlot == [st |-> "waiting", ip |-> "none", wakeAt |-> 0]

\* the pool as one value: the fields of the IPPoolManager object and the
\* observed gap between acquisitions
PoolNow == [ips |-> ips, lu |-> lastUsedTimes, ci |-> currentIndex,
            gap |-> acqGap]

\* a getNextAvailableIP that never sleeps
NoSleepNeeded(P, now) == 0

\* getNextAvailableIP, first half: the address under the cursor and the
\* time to sleep before it may be used (0: no sleep)
SleepNeeded(P, now) ==
    LET ip == P.ips[P.ci + 1]
        timeSinceLastUse == now - P.lu[ip]
    IN  IF timeSinceLastUse < Cooldown THEN Cooldown - timeSinceLastUse ELSE 0

\* getNextAvailableIP, second half: stamp the address that was read before
\* the sleep and advance the cursor
Stamp(P, ip, now) ==
    [P EXCEPT !.lu[ip] = now,
              !.ci = (P.ci + 1) % Len(P.ips),
              !.gap[ip] = now - P.lu[ip]]

\* batch.map(async email => ...): the callbacks run one after the other up
\* to their first suspension; one that needs no sleep has its address at
\* once and its probe starts, one that must sleep keeps the address it read
RECURSIVE Dispatch(_, _, _, _, _, _)
Dispatch(P, slots, i, hi, now, found) ==
    IF i > hi THEN [pool |-> P, slots |-> slots]
    ELSE IF found
    THEN Dispatch(P, [slots EXCEPT ![i].st = "skipped"], i + 1, hi, now, found)
    ELSE LET ip == P.ips[P.ci + 1]
             d  == SleepNeeded(P, now)
         IN  IF d > 0
             THEN Dispatch(P,
                    [slots EXCEPT ![i] = [st |-> "sleeping", ip |-> ip,
                                          wakeAt |-> now + d]],
                    i + 1, hi, now, found)
             ELSE Dispatch(Stamp(P, ip, now),
                    [slots EXCEPT ![i] = [st |-> "probing", ip |-> ip,
                                          wakeAt |-> 0]],
                    i + 1, hi, now, found)

Min(a, b) == IF a < b THEN a ELSE b

\* the batch (first and last position) that holds position i
BatchLo(i, n) == ((i - 1) \div n) * n + 1
BatchHi(i, n, len) == Min(BatchLo(i, n) + n - 1, len)

\* Map.prototype.set: a key already present keeps its place in the
\* iteration order and gets the new value
MapSet(m, key, value) ==
    IF \E k \in 1..Len(m) : m[k].key = key
    THEN [k \in 1..Len(m) |->
            IF m[k].key = key THEN [key |-> key, value |-> value] ELSE m[k]]
    ELSE Append(m, [key |-> key, value |-> value])

\* the emails argument of the callers: caller A passes distinct addresses,
\* caller B a list whose first two addresses are the same (two learned
\* templates with one expansion, as step 5 of findWorkEmail builds it)
EmailsOf(c) ==
    [i \in 1..MaxEmails |-> IF c = "B" /\ i = 2 THEN <<c, 1>> ELSE <<c, i>>]

\* new IPPoolManager(ConfiguredIPs); the clock is past the first cooldown,
\* as Date.now() always is
PoolInit ==
    /\ ips = ConfiguredIPs
    /\ lastUsedTimes = [ip \in IPSet(ConfiguredIPs) |-> 0]
    /\ currentIndex = 0
    /\ pNow = Cooldown
    /\ vpc = [c \in Callers |-> "idle"]
    /\ vEmails = [c \in Callers |-> EmailsOf(c)]
    /\ vSlots = [c \in Callers |-> [i \in 1..MaxEmails |-> NoSlot]]
    /\ vFound = [c \in Callers |-> FALSE]
    /\ vResults = [c \in Callers |-> <<>>]
    /\ acqGap = [ip \in IPSet(ConfiguredIPs) |-> Cooldown]

SetPool(P) ==
    /\ lastUsedTimes' = P.lu
    /\ currentIndex' = P.ci
    /\ acqGap' = P.gap

\* verifyEmailsInParallel is called: the first batch is dispatched
VerifyCall(c) ==
    /\ vpc[c] = "idle"
    /\ LET n == Len(ips)
           d == Dispatch(PoolNow, vSlots[c], 1, Min(n, Len(vEmails[c])), pNow,
                         vFound[c])
       IN  /\ SetPool(d.pool)
           /\ vSlots' = [vSlots EXCEPT ![c] = d.slots]
    /\ vpc' = [vpc EXCEPT ![c] = "running"]
    /\ UNCHANGED <<ips, pNow, vEmails, vFound, vResults>>
    /\ UNCHANGED notPoolVars

\* the sleep of getNextAvailableIP is over: the address read before the
\* sleep is stamped and returned, and the probe starts
Wake(c, i) ==
    /\ vpc[c] = "running"
    /\ vSlots[c][i].st = "sleeping"
    /\ pNow >= vSlots[c][i].wakeAt
    /\ SetPool(Stamp(PoolNow, vSlots[c][i].ip, pNow))
    /\ vSlots' = [vSlots EXCEPT ![c][i].st = "probing"]
    /\ UNCHANGED <<ips, pNow, vpc, vEmails, vFound, vResults>>
    /\ UNCHANGED notPoolVars

\* a Promise.all that resolves as soon as one promise of the batch does
BatchDoneAtFirst(slots, lo, hi) ==
    \E k \in lo..hi : slots[k].st \in {"resolved", "skipped"}

\* await Promise.all(verificationPromises): every callback of the batch
\* lo..hi has returned
BatchDone(slots, lo, hi) ==
    \A k \in lo..hi : slots[k].st \in {"resolved", "skipped"}

\* verifyFn resolves for one email; when it was the last of its batch,
\* Promise.all resolves and the loop goes on: the next batch is dispatched,
\* or the function returns
ProbeResolve(c, i, valid) ==
    /\ vpc[c] = "running"
    /\ vSlots[c][i].st = "probing"
    /\ LET n      == Len(ips)
           len    == Len(vEmails[c])
           lo     == BatchLo(i, n)
           hi     == BatchHi(i, n, len)
           slots1 == [vSlots[c] EXCEPT ![i].st = "resolved"]
           found1 == vFound[c] \/ valid
           batchDone == BatchDone(slots1, lo, hi)
           more   == hi < len /\ ~found1
           d      == Dispatch(PoolNow, slots1, hi + 1,
                              BatchHi(hi + 1, n, len), pNow, found1)
       IN  /\ vResults' = [vResults EXCEPT
                             ![c] = MapSet(@, vEmails[c][i], [valid |-> valid])]
           /\ vFound' = [vFound EXCEPT ![c] = found1]
           /\ IF batchDone /\ more
              THEN /\ SetPool(d.pool)
                   /\ vSlots' = [vSlots EXCEPT ![c] = d.slots]
                   /\ UNCHANGED vpc
              ELSE /\ vSlots' = [vSlots EXCEPT ![c] = slots1]
                   /\ vpc' = [vpc EXCEPT
                                ![c] = IF batchDone THEN "returned" ELSE @]
                   /\ UNCHANGED <<lastUsedTimes, currentIndex, acqGap>>
    /\ UNCHANGED <<ips, pNow, vEmails>>
    /\ UNCHANGED notPoolVars

PoolTick ==
    /\ pNow < Cooldown + MaxPoolTicks * PoolTickMs
    /\ pNow' = pNow + PoolTickMs
    /\ UNCHANGED <<ips, lastUsedTimes, currentIndex, vpc, vEmails, vSlots,
                   vFound, vResults, acqGap>>
    /\ UNCHANGED notPoolVars

PoolNext ==
    \/ \E c \in Callers : VerifyCall(c)
    \/ \E c \in Callers, i \in 1..MaxEmails : Wake(c, i)
    \/ \E c \in Callers, i \in 1..MaxEmails, valid \in BOOLEAN :
           ProbeResolve(c, i, valid)
    \/ PoolTick

InitPool == PoolInit /\ PatIdle /\ SmtpIdle /\ CtlIdle

SpecPool == InitPool /\ [][PoolNext]_vars

(***************************************************************************)
(* SpecPoolOne: a pool of one IP, the calls of verifyEmailsInParallel one  *)
(* after the other                                                         *)
(***************************************************************************)

MaxPoolOneTicks == 6

\* new IPPoolManager with a single address
OneIP == <<"108.165.213.192">>

PoolOneInit ==
    /\ ips = OneIP
    /\ lastUsedTimes = [ip \in IPSet(OneIP) |-> 0]
    /\ currentIndex = 0
    /\ pNow = Cooldown
    /\ vpc = [c \in Callers |-> "idle"]
    /\ vEmails = [c \in Callers |-> EmailsOf(c)]
    /\ vSlots = [c \in Callers |-> [i \in 1..MaxEmails |-> NoSlot]]
    /\ vFound = [c \in Callers |-> FALSE]
    /\ vResults = [c \in Callers |-> <<>>]
    /\ acqGap = [ip \in IPSet(OneIP) |-> Cooldown]

\* verifyEmailsInParallel is called while no other call is running
VerifyCallInTurn(c) ==
    /\ \A d \in Callers : vpc[d] # "running"
    /\ VerifyCall(c)

PoolOneTick ==
    /\ pNow < Cooldown + MaxPoolOneTicks * PoolTickMs
    /\ pNow' = pNow + PoolTickMs
    /\ UNCHANGED <<ips, lastUsedTimes, currentIndex, vpc, vEmails, vSlots,
                   vFound, vResults, acqGap>>
    /\ UNCHANGED notPoolVars

PoolOneNext ==
    \/ \E c \in Callers : VerifyCallInTurn(c)
    \/ \E c \in Callers, i \in 1..MaxEmails : Wake(c, i)
    \/ \E c \in Callers, i \in 1..MaxEmails, valid \in BOOLEAN :
           ProbeResolve(c, i, valid)
    \/ PoolOneTick

InitPoolOne == PoolOneInit /\ PatIdle /\ SmtpIdle /\ CtlIdle

SpecPoolOne == InitPoolOne /\ [][PoolOneNext]_vars

\* the call of caller c has started a probe
HasProbed(c) ==
    \E i \in 1..Len(vEmails[c]) : vSlots[c][i].st \in {"probing", "resolved"}

\* C24: with a pool of one IP and calls made one after the other, every
\* acquisition of the IP is at least 500 ms after the previous one, also
\* from the last probe of one request to the first probe of the next.
C24_OneIPSequentialCooldown ==
    \A i \in 1..Len(ips) : acqGap[ips[i]] >= Cooldown

\* the second call has started its first probe after the first call, which
\* probed two addresses, has returned
C24_Witness ==
    \E c, d \in Callers :
        /\ vpc[c] = "returned"
        /\ Len(vResults[c]) >= 2
        /\ vpc[d] = "running"
        /\ HasProbed(d)

\* the probes in flight on source address ip
InFlightOn(ip) ==
    {<<c, i>> \in Callers \X (1..MaxEmails) :
        vSlots[c][i].st = "probing" /\ vSlots[c][i].ip = ip}

\* C1: any two consecutive acquisitions of one source IP are at least
\* 500 ms apart
C1_CooldownBetweenAcquisitions ==
    \A ip \in IPSet(ips) : acqGap[ip] >= Cooldown

\* C2: at most one probe is in flight per source IP of the pool
C2_OneProbePerIP ==
    \A ip \in IPSet(ips) : Cardinality(InFlightOn(ip)) <= 1

\* the callback of batch.map for position i of caller c has asked for an IP
Started(c, i) == vSlots[c][i].st \in {"sleeping", "probing", "resolved"}

\* the verdict stored for position i of caller c is valid=true
StoredValid(c, i) ==
    \E k \in 1..Len(vResults[c]) :
        /\ vResults[c][k].key = vEmails[c][i]
        /\ vResults[c][k].value.valid

\* C13: the emails are processed in consecutive chunks of pool width: when
\* a probe of a later chunk has started, every probe of every earlier chunk
\* has resolved and none of them returned valid=true.
C13_ChunksInSequence ==
    \A c \in Callers : \A i, j \in 1..Len(vEmails[c]) :
        (BatchLo(j, Len(ips)) < BatchLo(i, Len(ips)) /\ Started(c, i)) =>
            /\ vSlots[c][j].st = "resolved"
            /\ ~StoredValid(c, j)

\* a call returned after a chunk with a valid address, leaving the next
\* chunk unstarted, while the other call went on to its second chunk
C13_Witness ==
    \E c, d \in Callers :
        /\ vpc[c] = "returned"
        /\ vFound[c]
        /\ \E i \in 1..Len(vEmails[c]) : vSlots[c][i].st = "waiting"
        /\ \E i \in 1..Len(vEmails[d]) :
              BatchLo(i, Len(ips)) > 1 /\ Started(d, i)

\* the verdicts stored for address e in the results of caller c
VerdictsFor(c, e) == {k \in 1..Len(vResults[c]) : vResults[c][k].key = e}

\* C14: what verifyEmailsInParallel returns holds exactly one verdict for
\* every address of every chunk that was started and none for the others,
\* and foundValidEmail is true exactly when one of those verdicts is
\* valid=true.
C14_OneVerdictPerStartedAddress ==
    \A c \in Callers :
        vpc[c] = "returned" =>
            /\ \A i \in 1..Len(vEmails[c]) :
                  Cardinality(VerdictsFor(c, vEmails[c][i])) =
                      (IF \E j \in 1..Len(vEmails[c]) :
                             vEmails[c][j] = vEmails[c][i] /\ Started(c, j)
                       THEN 1 ELSE 0)
            /\ vFound[c] <=>
                  \E k \in 1..Len(vResults[c]) : vResults[c][k].value.valid

\* the key of the first valid=true entry of a results Map in iteration
\* order, the one the result loop of findWorkEmail reports and stores as
\* verifiedEmail; <<>> when no entry is valid
FirstValidKey(m) ==
    LET pos == {k \in 1..Len(m) : m[k].value.valid}
    IN  IF pos = {} THEN <<>>
        ELSE m[CHOOSE k \in pos : \A j \in pos : k <= j].key

\* C33: the address the result loop reports is the one whose probe resolved
\* valid=true first in time: when the first positive of a call resolves it
\* is the first valid entry of the results, and it stays the first valid
\* entry whatever resolves after it.
C33_FirstPositiveInTimeIsReported ==
    [][\A c \in Callers :
          /\ (~vFound[c] /\ vFound'[c]) =>
                \E i \in 1..Len(vEmails[c]) :
                    /\ vSlots[c][i].st = "probing"
                    /\ vSlots'[c][i].st = "resolved"
                    /\ FirstValidKey(vResults'[c]) = vEmails[c][i]
          /\ vFound[c] =>
                FirstValidKey(vResults'[c]) = FirstValidKey(vResults[c])]_vars

\* getNextAvailableIP has returned an address for position i of caller c
Acquired(c, i) == vSlots[c][i].st \in {"probing", "resolved"}

\* C36: acquisitions are served round-robin, so the probes of one chunk get
\* pairwise distinct source addresses, also when the acquirers had to sleep
\* for the cooldown.
C36_ChunkGetsDistinctIPs ==
    \A c \in Callers : \A i, j \in 1..Len(vEmails[c]) :
        (/\ i # j
         /\ BatchLo(i, Len(ips)) = BatchLo(j, Len(ips))
         /\ Acquired(c, i)
         /\ Acquired(c, j)) => vSlots[c][i].ip # vSlots[c][j].ip

(***************************************************************************)
(* Controller: findWorkEmail and the repositories it uses                  *)
(***************************************************************************)

Reqs == {"r1", "r2"}

\* number of requests received in one behaviour
MaxRequests == 4

People ==
    { [first |-> <<"a", "b">>, last |-> <<"b", "a">>],
      [first |-> <<"a", "a">>, last |-> <<"b", "b">>] }

CompanyNames == { <<"a", "c">> }

\* req.body.domain: absent, or given with capitals and a trailing blank
NoDomain == <<>>
DomainInputs == { NoDomain, <<"D", ".io", " ">> }

\* DNS: the domains with MX records; resolveMx rejects for the others
MxDomains == { <<"d", ".io">>, <<"a", "c", ".io">> }

\* the domains whose mail server accepts every local-part
CatchAllServers == { <<"d", ".io">> }

\* the local-parts the other mail servers accept in RCPT TO
AcceptedLocalParts == { <<"a", "b">>, <<"a", "a">>, <<"b", "b", "a", "a">> }

\* String.prototype.trim
RECURSIVE trim(_)
trim(s) ==
    IF s = <<>> THEN s
    ELSE IF Head(s) = " " THEN trim(Tail(s))
    ELSE IF s[Len(s)] = " " THEN trim(SubSeq(s, 1, Len(s) - 1))
    ELSE s

\* { name: { $regex: new RegExp(companyName, 'i') } } on names of letters
NameMatches(docName, companyName) ==
    IsSubstring(toLowerCase(companyName), toLowerCase(docName))

\* DNS: the domains for which the resolver answers with an empty list
EmptyMxDomains == { <<"e", ".io">> }

\* dns.resolveMx: "records", "empty" (an empty list), or "error" (the
\* promise rejects with ENODATA or ENOTFOUND)
MxLookup(domain) ==
    IF domain \in MxDomains THEN "records"
    ELSE IF domain \in EmptyMxDomains THEN "empty"
    ELSE "error"

\* guessDomainFromCompanyName: the slug of the name with each top-level
\* domain of a fixed list
GuessDomains(companyName) ==
    LET slug == SelectSeq(toLowerCase(companyName), LAMBDA ch : ch # " ")
        tlds == <<".com", ".io", ".co", ".net">>
    IN  [i \in 1..Len(tlds) |-> slug \o <<tlds[i]>>]

\* generateEmailPatterns: every template expanded for the lower-cased
\* names, with "@" and the domain, in the declared order
generateEmailPatterns(firstName, lastName, domain) ==
    [i \in 1..Len(Templates) |->
        expandPattern(Templates[i], firstName, lastName) \o <<"@">> \o domain]

\* the answer of the mail server to RCPT TO:<email>
RcptAccepted(email, domain) ==
    /\ IndexOf(email, "@") # 0
    /\ \/ domain \in CatchAllServers
       \/ LocalPartOf(email) \in AcceptedLocalParts

\* the object smtpVerify resolves with (it has no email field)
ProbeResultOf(email, domain) ==
    IF RcptAccepted(email, domain)
    THEN [valid |-> TRUE, reason |-> "NONE"]
    ELSE [valid |-> FALSE, reason |-> "INVALID_RECIPIENT"]

\* f with the counter of key k incremented, created with 1 when absent
\* ($inc with upsert)
IncUpsert(f, k) ==
    IF k \in DOMAIN f THEN [f EXCEPT ![k] = @ + 1]
    ELSE [x \in DOMAIN f \cup {k} |-> IF x = k THEN 1 ELSE f[x]]

EmptyTable == [x \in {} |-> 0]

\* a step 2 whose lookup never finds a record
CatchAllFindOneNothing(domain) == FALSE

\* findWorkEmail step 2: CatchAllDomain.findOne({ domain }) is not null
CatchAllFindOne(domain) == domain \in DOMAIN catchAll

\* isKnownCatchAllDomain of the verifier
isKnownCatchAllDomain(domain) == domain \in DOMAIN catchAll

\* Array.prototype.sort((a, b) => b.usageCount - a.usageCount): stable
RECURSIVE SortByUsage(_)
SortByUsage(ps) ==
    IF ps = <<>> THEN <<>>
    ELSE LET x == ps[Len(ps)]
             sorted == SortByUsage(SubSeq(ps, 1, Len(ps) - 1))
             k == Cardinality({i \in 1..Len(sorted) :
                                  sorted[i].usageCount >= x.usageCount})
         IN  SubSeq(sorted, 1, k) \o <<x>> \o SubSeq(sorted, k + 1, Len(sorted))

Includes(s, x) == \E i \in 1..Len(s) : s[i] = x

\* for (const email of generatedEmails) if (!includes) push
RECURSIVE AppendNew(_, _)
AppendNew(list, more) ==
    IF more = <<>> THEN list
    ELSE AppendNew(IF Includes(list, Head(more)) THEN list
                   ELSE Append(list, Head(more)),
                   Tail(more))

\* findWorkEmail step 5: emailsToVerify
BuildCandidates(verifiedPatterns, firstName, lastName, domain) ==
    LET sortedPatterns == SortByUsage(verifiedPatterns)
        learned == [i \in 1..Len(sortedPatterns) |->
                      expandPattern(sortedPatterns[i].pattern,
                                    firstName, lastName)]
    IN  IF Len(learned) < 5
        THEN AppendNew(learned,
                       generateEmailPatterns(firstName, lastName, domain))
        ELSE learned

\* one batch of verifyEmailsInParallel: every email of the batch is probed
\* and its result entered into the Map
RECURSIVE RunBatch(_, _, _, _, _)
RunBatch(emails, domain, lo, hi, acc) ==
    IF lo > hi THEN acc
    ELSE LET email == emails[lo]
             res   == ProbeResultOf(email, domain)
         IN  RunBatch(emails, domain, lo + 1, hi,
                      [results |-> MapSet(acc.results, email, res),
                       probed  |-> Append(acc.probed, email),
                       found   |-> acc.found \/ res.valid])

\* verifyEmailsInParallel: batches of pool width, one after the other,
\* until a batch held a valid address
RECURSIVE RunBatches(_, _, _, _)
RunBatches(emails, domain, lo, acc) ==
    IF lo > Len(emails) \/ acc.found THEN acc
    ELSE LET hi == Min(lo + Len(ConfiguredIPs) - 1, Len(emails))
         IN  RunBatches(emails, domain, hi + 1,
                        RunBatch(emails, domain, lo, hi, acc))

NoDoc == [id |-> 0]

NoResp == [status |-> 0]

NoReq ==
    [ first |-> <<>>, last |-> <<>>, cname |-> <<>>, provided |-> NoDomain,
      domain |-> NoDomain, company |-> NoDoc, emails |-> <<>>,
      results |-> <<>>, validEmails |-> <<>>, verifiedPatterns |-> <<>>,
      detIdx |-> 0, catchAllCount |-> 0, person |-> NoDoc,
      \* bookkeeping of the run, not locals of the code
      knownAtStart |-> {}, smtp |-> 0, probed |-> <<>>, learned |-> <<>>,
      \* the collections the invocation has written a record of
      wrote |-> {},
      \* of the smtp connections, those opened with an address of the pool
      \* as localAddress
      pooled |-> 0 ]

\* Model.findOne: of the documents at the positions hits, the first in
\* insertion order, or null
findOne(docs, hits) ==
    IF hits = {} THEN NoDoc
    ELSE docs[CHOOSE i \in hits : \A j \in hits : i <= j]

\* the index of the first entry of verifiedPatterns with this pattern, 0
\* when there is none (findIndex + 1)
PatternIndex(verifiedPatterns, pattern) ==
    LET hits == {i \in 1..Len(verifiedPatterns) :
                    verifiedPatterns[i].pattern = pattern}
    IN  IF hits = {} THEN 0 ELSE CHOOSE i \in hits : \A j \in hits : i <= j

CtlInit ==
    /\ companies = <<>>
    /\ patterns = EmptyTable
    /\ persons = <<>>
    /\ catchAll = EmptyTable
    /\ dbClock = 1
    /\ pc = [r \in Reqs |-> "idle"]
    /\ rq = [r \in Reqs |-> NoReq]
    /\ resp = [r \in Reqs |-> NoResp]
    /\ started = 0

\* res.status(..).json(..): the request is over
Respond(r, response) ==
    /\ resp' = [resp EXCEPT ![r] = response]
    /\ pc' = [pc EXCEPT ![r] = "done"]

\* the catch of findWorkEmail: status 500
Fail500(r) == Respond(r, [status |-> 500, success |-> FALSE])

\* the request slot r is free
Free(r) == pc[r] \in {"idle", "done"}

\* the first guessed domain whose MX lookup returns a non-empty list,
\* NoDomain when there is none
FirstWithMx(guesses) ==
    LET good == {i \in 1..Len(guesses) : MxLookup(guesses[i]) = "records"}
    IN  IF good = {} THEN NoDomain
        ELSE guesses[CHOOSE i \in good : \A j \in good : i <= j]

\* step 1 with the company lookup skipped
determineDomainByGuess(provided, existingCompany, guesses) ==
    IF provided # NoDomain THEN trim(toLowerCase(provided))
    ELSE FirstWithMx(guesses)

\* step 1: the provided domain, or the domain of the company found by
\* name, or the first guessed domain that has MX records
determineDomain(provided, existingCompany, guesses) ==
    IF provided # NoDomain THEN trim(toLowerCase(provided))
    ELSE IF existingCompany # NoDoc THEN existingCompany.domain
    ELSE FirstWithMx(guesses)

\* a request with the given body arrives and takes the first free slot;
\* step 1 ends the request with status 400 when no domain is found
StartRequest(r, who, cname, provided) ==
    /\ Free(r)
    /\ r = "r1" \/ ~Free("r1")
    /\ started' = started + 1
    /\   LET existingCompany ==
                 findOne(companies,
                         {i \in 1..Len(companies) :
                             NameMatches(companies[i].name, cname)})
             domain == determineDomain(provided, existingCompany,
                                       GuessDomains(cname))
             body == [NoReq EXCEPT !.first = who.first, !.last = who.last,
                                   !.cname = cname, !.provided = provided,
                                   !.knownAtStart = DOMAIN catchAll]
         IN  IF provided = NoDomain /\ domain = NoDomain
             THEN /\ rq' = [rq EXCEPT ![r] = body]
                  /\ Respond(r, [status |-> 400, success |-> FALSE])
             ELSE /\ rq' = [rq EXCEPT ![r] = [body EXCEPT !.domain = domain]]
                  /\ pc' = [pc EXCEPT ![r] = "precheck"]
                  /\ resp' = [resp EXCEPT ![r] = NoResp]
    /\ UNCHANGED <<companies, patterns, persons, catchAll, dbClock>>
    /\ UNCHANGED notCtlVars

\* a request for one of the people of the company arrives
Start(r) ==
    /\ started < MaxRequests
    /\ \E who \in People, cname \in CompanyNames, provided \in DomainInputs :
           StartRequest(r, who, cname, provided)

\* step 2: a domain recorded as catch-all is answered at once
Precheck(r) ==
    /\ pc[r] = "precheck"
    /\ IF CatchAllFindOne(rq[r].domain)
       THEN Respond(r, [status |-> 200, success |-> FALSE,
                        isCatchAll |-> TRUE, advisory |-> TRUE])
       ELSE /\ pc' = [pc EXCEPT ![r] = "findCompany"]
            /\ UNCHANGED resp
    /\ UNCHANGED <<companies, patterns, persons, catchAll, dbClock, rq,
                   started>>
    /\ UNCHANGED notCtlVars

\* step 3, findOrCreateCompany: Company.findOne by name or domain
FindCompany(r) ==
    /\ pc[r] = "findCompany"
    /\ LET company ==
               findOne(companies,
                       {i \in 1..Len(companies) :
                           \/ NameMatches(companies[i].name, rq[r].cname)
                           \/ companies[i].domain = rq[r].domain})
       IN  IF company # NoDoc
           THEN /\ rq' = [rq EXCEPT ![r].company = company]
                /\ pc' = [pc EXCEPT ![r] = "probe"]
           ELSE /\ pc' = [pc EXCEPT ![r] = "createCompany"]
                /\ UNCHANGED rq
    /\ UNCHANGED <<companies, patterns, persons, catchAll, dbClock, resp,
                   started>>
    /\ UNCHANGED notCtlVars

\* step 3, findOrCreateCompany: company.save() of a new document; the
\* unique index on name rejects a second document with the same name
CreateCompany(r) ==
    /\ pc[r] = "createCompany"
    /\ IF \E i \in 1..Len(companies) : companies[i].name = rq[r].cname
       THEN /\ Fail500(r)
            /\ UNCHANGED <<companies, rq>>
       ELSE LET company == [id |-> Len(companies) + 1, name |-> rq[r].cname,
                            domain |-> trim(rq[r].domain),
                            verifiedPatterns |-> <<>>, v |-> 0]
            IN  /\ companies' = Append(companies, company)
                /\ rq' = [rq EXCEPT ![r].company = company,
                                    ![r].wrote = @ \cup {"Company"}]
                /\ pc' = [pc EXCEPT ![r] = "probe"]
                /\ UNCHANGED resp
    /\ UNCHANGED <<patterns, persons, catchAll, dbClock, started>>
    /\ UNCHANGED notCtlVars

\* a result loop that runs the detection whatever the results are
AfterResultsAlwaysDetect(anyValid) == "detect"

\* the loop over the results: detectCatchAllDomain is called at the first
\* valid entry; without one the loop ends and the person is saved
AfterResults(anyValid) == IF anyValid THEN "detect" ELSE "personFind"

\* steps 4 to 6 and the loop over the results up to its first valid
\* entry: MX lookup, candidate list, verifyEmailPatterns
Probe(r) ==
    /\ pc[r] = "probe"
    /\ IF MxLookup(rq[r].domain) = "error"
       THEN /\ Fail500(r)
            /\ UNCHANGED rq
       ELSE IF MxLookup(rq[r].domain) = "empty"
       THEN /\ Respond(r, [status |-> 400, success |-> FALSE])
            /\ UNCHANGED rq
       ELSE \E emails \in {BuildCandidates(rq[r].company.verifiedPatterns,
                                           rq[r].first, rq[r].last,
                                           rq[r].domain)} :
            \E run \in {RunBatches(emails, rq[r].domain, 1,
                                   [results |-> <<>>, probed |-> <<>>,
                                    found |-> FALSE])} :
            LET valid == {k \in 1..Len(run.results) :
                             run.results[k].value.valid}
                firstValid == CHOOSE k \in valid : \A j \in valid : k <= j
                email == run.results[firstValid].key
                pattern == derivePatternFromEmail(email, rq[r].first,
                                                  rq[r].last)
            IN  /\ rq' = [rq EXCEPT
                     ![r].emails = emails,
                     ![r].results = run.results,
                     ![r].probed = run.probed,
                     ![r].smtp = @ + Len(run.probed),
                     ![r].pooled = @ + Len(run.probed),
                     ![r].validEmails =
                         IF valid = {} THEN <<>> ELSE <<email>>,
                     ![r].verifiedPatterns =
                         IF valid = {} \/ pattern = <<>> THEN <<>>
                         ELSE <<pattern>>]
                /\ pc' = [pc EXCEPT ![r] = AfterResults(valid # {})]
                /\ UNCHANGED resp
    /\ UNCHANGED <<companies, patterns, persons, catchAll, dbClock, started>>
    /\ UNCHANGED notCtlVars

\* detectCatchAllDomain: one verifyEmail(randomEmail) of the three; a
\* domain recorded meanwhile makes verifyEmail answer without a probe.
\* verifyEmail calls smtpVerify(email, mxRecord, fromEmail): sourceIP and
\* so localAddress are undefined, no address of the pool is acquired
Detect(r) ==
    /\ pc[r] = "detect"
    /\ LET known  == isKnownCatchAllDomain(rq[r].domain)
           probes == ~known /\ MxLookup(rq[r].domain) = "records"
           valid  == probes /\ rq[r].domain \in CatchAllServers
           idx    == rq[r].detIdx + 1
           count  == rq[r].catchAllCount + (IF valid THEN 1 ELSE 0)
       IN  /\ rq' = [rq EXCEPT ![r].detIdx = idx,
                               ![r].catchAllCount = count,
                               ![r].smtp = IF probes THEN @ + 1 ELSE @]
           /\ pc' = [pc EXCEPT ![r] =
                       IF idx < 3 THEN "detect"
                       ELSE IF count >= 2 THEN "markCatchAll"
                       ELSE "learnSave"]
    /\ UNCHANGED <<companies, patterns, persons, catchAll, dbClock, resp,
                   started>>
    /\ UNCHANGED notCtlVars

\* markAsCatchAll: CatchAllDomain.findOneAndUpdate with upsert
MarkCatchAll(r) ==
    /\ pc[r] = "markCatchAll"
    /\ catchAll' = IncUpsert(catchAll, rq[r].domain)
    /\ rq' = [rq EXCEPT ![r].wrote = @ \cup {"CatchAllDomain"}]
    /\ pc' = [pc EXCEPT ![r] = "markCompanies"]
    /\ UNCHANGED <<companies, patterns, persons, dbClock, resp, started>>
    /\ UNCHANGED notCtlVars

\* the paths companySchema declares
CompanySchemaPaths == {"name", "domain", "verifiedPatterns"}

\* one document under Company.updateMany(.., { $set: { path: value } }):
\* the schema is strict, a path it does not declare is dropped from the
\* update
UpdateSet(doc, path, value) ==
    IF path \in CompanySchemaPaths
    THEN [x \in DOMAIN doc \cup {path} |-> IF x = path THEN value ELSE doc[x]]
    ELSE doc

\* the stored value of isCatchAll of a company, false when the document
\* has no such field
IsCatchAllOf(doc) == "isCatchAll" \in DOMAIN doc /\ doc.isCatchAll

\* markAsCatchAll: Company.updateMany({ domain }, { $set: { isCatchAll:
\* true } }); then the catch-all response of the result loop
MarkCompanies(r) ==
    /\ pc[r] = "markCompanies"
    /\ companies' = [c \in 1..Len(companies) |->
                        IF companies[c].domain = rq[r].domain
                        THEN UpdateSet(companies[c], "isCatchAll", TRUE)
                        ELSE companies[c]]
    /\ rq' = [rq EXCEPT ![r].wrote =
                 IF companies' = companies THEN @ ELSE @ \cup {"Company"}]
    /\ Respond(r, [status |-> 200, success |-> FALSE, isCatchAll |-> TRUE,
                   advisory |-> FALSE, verifiedEmails |-> <<>>])
    /\ UNCHANGED <<patterns, persons, catchAll, dbClock, started>>
    /\ UNCHANGED notCtlVars

\* updateCompanyPattern up to company.save(): the copy loaded in step 3 is
\* changed and saved.  save() of a changed array element sends
\* $set on the element's position, guarded by the version read at load;
\* save() of a pushed element sends $push and increments the version
LearnSave(r) ==
    /\ pc[r] = "learnSave"
    /\ LET company == rq[r].company
           pattern == rq[r].verifiedPatterns[1]
           k       == PatternIndex(company.verifiedPatterns, pattern)
           stored  == companies[company.id]
       IN  IF rq[r].verifiedPatterns = <<>>
           THEN /\ pc' = [pc EXCEPT ![r] = "personFind"]
                /\ UNCHANGED <<companies, resp, dbClock, rq>>
           ELSE IF k > 0
           THEN IF stored.v # company.v
                THEN /\ Fail500(r)
                     /\ UNCHANGED <<companies, dbClock, rq>>
                ELSE /\ companies' = [companies EXCEPT
                         ![company.id].verifiedPatterns[k] =
                            [pattern |-> pattern,
                             usageCount |->
                                 company.verifiedPatterns[k].usageCount + 1,
                             lastVerified |-> dbClock]]
                     /\ dbClock' = dbClock + 1
                     /\ rq' = [rq EXCEPT ![r].wrote = @ \cup {"Company"}]
                     /\ pc' = [pc EXCEPT ![r] = "learnGlobal"]
                     /\ UNCHANGED resp
           ELSE /\ companies' = [companies EXCEPT
                    ![company.id].verifiedPatterns =
                       Append(@, [pattern |-> pattern, usageCount |-> 1,
                                  lastVerified |-> dbClock]),
                    ![company.id].v = @ + 1]
                /\ dbClock' = dbClock + 1
                /\ rq' = [rq EXCEPT ![r].wrote = @ \cup {"Company"}]
                /\ pc' = [pc EXCEPT ![r] = "learnGlobal"]
                /\ UNCHANGED resp
    /\ UNCHANGED <<patterns, persons, catchAll, started>>
    /\ UNCHANGED notCtlVars

\* updateCompanyPattern after company.save(): Pattern.findOneAndUpdate
\* with $inc and upsert
LearnGlobal(r) ==
    /\ pc[r] = "learnGlobal"
    /\ patterns' = IncUpsert(patterns, rq[r].verifiedPatterns[1])
    /\ rq' = [rq EXCEPT ![r].learned = Append(@, rq[r].verifiedPatterns[1]),
                        ![r].wrote = @ \cup {"Pattern"}]
    /\ pc' = [pc EXCEPT ![r] = "personFind"]
    /\ UNCHANGED <<companies, persons, catchAll, dbClock, resp, started>>
    /\ UNCHANGED notCtlVars

\* savePersonData: Person.findOne on the exact names and company
PersonFind(r) ==
    /\ pc[r] = "personFind"
    /\ LET hits == {i \in 1..Len(persons) :
                       /\ persons[i].firstName = rq[r].first
                       /\ persons[i].lastName = rq[r].last
                       /\ persons[i].company = rq[r].cname}
       IN  rq' = [rq EXCEPT ![r].person = findOne(persons, hits)]
    /\ pc' = [pc EXCEPT ![r] = "personSave"]
    /\ UNCHANGED <<companies, patterns, persons, catchAll, dbClock, resp,
                   started>>
    /\ UNCHANGED notCtlVars

\* the entries savePersonData appends: result.email is read from objects
\* that have no email field
FormattedResults(results) ==
    [k \in 1..Len(results) |->
        [email |-> <<"undefined">>, valid |-> results[k].value.valid,
         reason |-> results[k].value.reason]]

\* savePersonData: person.save(), then the response of findWorkEmail.
\* save() of an array that was assigned as a whole is guarded by the
\* version read at load and increments it
PersonSave(r) ==
    /\ pc[r] = "personSave"
    /\ LET old == rq[r].person
           verifiedEmail == IF rq[r].validEmails = <<>> THEN <<"null">>
                            ELSE rq[r].validEmails[1]
           formatted == FormattedResults(rq[r].results)
           ok == [status |-> 200, success |-> rq[r].validEmails # <<>>,
                  isCatchAll |-> FALSE, advisory |-> FALSE,
                  verifiedEmails |-> rq[r].validEmails]
       IN  IF old = NoDoc
           THEN /\ persons' = Append(persons,
                      [id |-> Len(persons) + 1,
                       firstName |-> rq[r].first, lastName |-> rq[r].last,
                       company |-> rq[r].cname,
                       domain |-> rq[r].company.domain,
                       verifiedEmail |-> verifiedEmail,
                       allTestedEmails |-> formatted, v |-> 0])
                /\ Respond(r, ok)
           ELSE IF persons[old.id].v # old.v
           THEN /\ Fail500(r)
                /\ UNCHANGED persons
           ELSE /\ persons' = [persons EXCEPT
                      ![old.id].verifiedEmail = verifiedEmail,
                      ![old.id].allTestedEmails =
                          old.allTestedEmails \o formatted,
                      ![old.id].v = @ + 1]
                /\ Respond(r, ok)
    /\ UNCHANGED <<companies, patterns, catchAll, dbClock, rq, started>>
    /\ UNCHANGED notCtlVars

Next ==
    \/ \E r \in Reqs : Start(r)
    \/ \E r \in Reqs : Precheck(r)
    \/ \E r \in Reqs : FindCompany(r)
    \/ \E r \in Reqs : CreateCompany(r)
    \/ \E r \in Reqs : Probe(r)
    \/ \E r \in Reqs : Detect(r)
    \/ \E r \in Reqs : MarkCatchAll(r)
    \/ \E r \in Reqs : MarkCompanies(r)
    \/ \E r \in Reqs : LearnSave(r)
    \/ \E r \in Reqs : LearnGlobal(r)
    \/ \E r \in Reqs : PersonFind(r)
    \/ \E r \in Reqs : PersonSave(r)

Init == CtlInit /\ PatIdle /\ SmtpIdle /\ PoolIdle

Spec == Init /\ [][Next]_vars

(***************************************************************************)
(* SpecRequests: findWorkEmail over a wider range of request bodies, for   *)
(* fewer requests                                                          *)
(***************************************************************************)

\* number of requests received in one behaviour of SpecRequests
MaxWideRequests == 2

Ab == [first |-> <<"a", "b">>, last |-> <<"b", "a">>]
AbCapital == [first |-> <<"A", "b">>, last |-> <<"b", "a">>]
Aa == [first |-> <<"a", "a">>, last |-> <<"b", "b">>]
\* a person none of whose candidate addresses exists
Ba == [first |-> <<"b", "a">>, last |-> <<"a", "b">>]

\* req.body: the names, the company and the domain
RequestBodies ==
    { [who |-> Ab,        cname |-> <<"a", "c">>, provided |-> NoDomain],
      [who |-> AbCapital, cname |-> <<"a", "c">>, provided |-> NoDomain],
      [who |-> Aa,        cname |-> <<"a", "c">>, provided |-> NoDomain],
      [who |-> Ba,        cname |-> <<"a", "c">>, provided |-> NoDomain],
      [who |-> Ab,        cname |-> <<"a", "c">>,
                          provided |-> <<"D", ".io", " ">>],
      \* a domain for which the resolver has no data
      [who |-> Ab,        cname |-> <<"a", "c">>, provided |-> <<"x", ".io">>],
      \* a domain for which the resolver answers with an empty list
      [who |-> Ab,        cname |-> <<"a", "c">>, provided |-> <<"e", ".io">>],
      \* a company none of whose guessed domains has MX records
      [who |-> Ab,        cname |-> <<"z", "z">>, provided |-> NoDomain],
      \* a company whose name contains the name of another one
      [who |-> Ab,        cname |-> <<"a", "c", "e">>,
                          provided |-> <<"a", "c", ".io">>] }

\* a request with one of the bodies arrives
StartAny(r) ==
    /\ started < MaxWideRequests
    /\ \E b \in RequestBodies :
           StartRequest(r, b.who, b.cname, b.provided)

RequestsNext ==
    \/ \E r \in Reqs : StartAny(r)
    \/ \E r \in Reqs : Precheck(r)
    \/ \E r \in Reqs : FindCompany(r)
    \/ \E r \in Reqs : CreateCompany(r)
    \/ \E r \in Reqs : Probe(r)
    \/ \E r \in Reqs : Detect(r)
    \/ \E r \in Reqs : MarkCatchAll(r)
    \/ \E r \in Reqs : MarkCompanies(r)
    \/ \E r \in Reqs : LearnSave(r)
    \/ \E r \in Reqs : LearnGlobal(r)
    \/ \E r \in Reqs : PersonFind(r)
    \/ \E r \in Reqs : PersonSave(r)

InitRequests == CtlInit /\ PatIdle /\ SmtpIdle /\ PoolIdle

SpecRequests == InitRequests /\ [][RequestsNext]_vars

(***************************************************************************)
(* Claims about the controller                                             *)
(***************************************************************************)

AdvisoryFailure ==
    [status |-> 200, success |-> FALSE, isCatchAll |-> TRUE, advisory |-> TRUE]

\* the request in slot r started after its domain was recorded as catch-all
StartedAfterRecord(r) ==
    /\ pc[r] # "idle"
    /\ rq[r].domain \in rq[r].knownAtStart

\* C3: a request that starts after its domain was recorded in
\* CatchAllDomain never gets past the catch-all check of step 2: it opens no
\* SMTP connection, and the response it ends with is the advisory failure
\* (success=false, isCatchAll=true).
C3_KnownCatchAllShortCircuits ==
    \A r \in Reqs :
        StartedAfterRecord(r) =>
            /\ rq[r].smtp = 0
            /\ pc[r] \in {"precheck", "done"}
            /\ pc[r] = "done" => resp[r] = AdvisoryFailure

\* a request for a recorded domain was answered with the advisory failure
C3_Witness ==
    \E r \in Reqs :
        /\ StartedAfterRecord(r)
        /\ pc[r] = "done"
        /\ resp[r] = AdvisoryFailure
        /\ rq[r].smtp = 0

NoDuplicates(s) == \A i, j \in 1..Len(s) : s[i] = s[j] => i = j

\* C8: within one request the candidate list built from the learned
\* patterns and the generated expansions holds no address twice, and no
\* address is probed twice.
C8_NoCandidateTwice ==
    \A r \in Reqs :
        /\ NoDuplicates(rq[r].emails)
        /\ NoDuplicates(rq[r].probed)

\* C9: every stored usageCount of a company's verifiedPatterns is at least
\* 1 and no step of any request, overlapping or not, lowers it.
C9_UsageCountNeverDecreases ==
    [][\A c \in 1..Len(companies) :
         \A k \in 1..Len(companies[c].verifiedPatterns) :
            /\ companies'[c].verifiedPatterns[k].usageCount >= 1
            /\ companies'[c].verifiedPatterns[k].usageCount
                  >= companies[c].verifiedPatterns[k].usageCount]_vars

\* the request in slot r ended with the ordinary response of step 7, not
\* demoted to catch-all
EndedNotDemoted(r) ==
    /\ pc[r] = "done"
    /\ resp[r].status = 200
    /\ ~resp[r].isCatchAll

\* C10: when a request ends without being demoted to catch-all, the
\* template of every address that returned valid=true in its probed batch
\* has been learned by that request (company entry and global counter).
C10_EveryPositiveLearned ==
    \A r \in Reqs :
        EndedNotDemoted(r) =>
            \A k \in 1..Len(rq[r].results) :
                rq[r].results[k].value.valid =>
                    Includes(rq[r].learned,
                             derivePatternFromEmail(rq[r].results[k].key,
                                                    rq[r].first, rq[r].last))

\* the sum of the usageCount of the entries of verifiedPatterns whose
\* pattern is T
RECURSIVE UsageOf(_, _)
UsageOf(verifiedPatterns, T) ==
    IF verifiedPatterns = <<>> THEN 0
    ELSE (IF Head(verifiedPatterns).pattern = T
          THEN Head(verifiedPatterns).usageCount ELSE 0)
         + UsageOf(Tail(verifiedPatterns), T)

RECURSIVE UsageInAll(_, _)
UsageInAll(docs, T) ==
    IF docs = <<>> THEN 0
    ELSE UsageOf(Head(docs).verifiedPatterns, T) + UsageInAll(Tail(docs), T)

\* the number of requests that learned T so far: the global Pattern
\* counter is incremented by one, atomically, by every such request
LearnsOf(T) == IF T \in DOMAIN patterns THEN patterns[T] ELSE 0

\* no request is between the two writes of updateCompanyPattern
NoLearnUnderWay == \A r \in Reqs : pc[r] # "learnGlobal"

\* C11: no update of a company's pattern counter is lost: when k requests,
\* in any interleaving, have each learned template T, the companies' stored
\* usageCount for T is k.
C11_NoLostUpdate ==
    NoLearnUnderWay =>
        \A T \in TemplateSet : UsageInAll(companies, T) = LearnsOf(T)

\* the patterns of the entries of verifiedPatterns, in order
PatternsOf(verifiedPatterns) ==
    [k \in 1..Len(verifiedPatterns) |-> verifiedPatterns[k].pattern]

\* C12: every company has at most one verifiedPatterns entry per template.
C12_OneEntryPerTemplate ==
    \A c \in 1..Len(companies) :
        NoDuplicates(PatternsOf(companies[c].verifiedPatterns))

\* the request in slot r ended with the catch-all response that follows a
\* detection that returned true
EndedDemoted(r) ==
    /\ pc[r] = "done"
    /\ resp[r].status = 200
    /\ resp[r].isCatchAll
    /\ ~resp[r].advisory

\* C15: detectCatchAllDomain returns true only when at least 2 of its 3
\* probes returned valid=true, and when it has returned true the domain has
\* a CatchAllDomain record and every Company with that domain has
\* isCatchAll=true; it returns false only with fewer than 2 valid probes.
C15_DetectionMarksDomainAndCompanies ==
    \A r \in Reqs :
        /\ EndedDemoted(r) =>
              /\ rq[r].catchAllCount >= 2
              /\ rq[r].domain \in DOMAIN catchAll
              /\ \A c \in 1..Len(companies) :
                    companies[c].domain = rq[r].domain =>
                        IsCatchAllOf(companies[c])
        /\ pc[r] \in {"learnSave", "learnGlobal"} => rq[r].catchAllCount < 2

\* the request in slot r has run its catch-all detection to the end and
\* has been answered
EndedAfterDetection(r) == pc[r] = "done" /\ rq[r].detIdx = 3

\* C16: a request whose detection reported catch-all (2 or 3 of the random
\* probes valid) is answered with success=false, no verified email and
\* isCatchAll=true; a request whose detection reported not catch-all is
\* answered with success=true and the positive.
C16_DetectionVerdictDecidesResponse ==
    \A r \in Reqs :
        EndedAfterDetection(r) =>
            IF rq[r].catchAllCount >= 2
            THEN resp[r] = [status |-> 200, success |-> FALSE,
                            isCatchAll |-> TRUE, advisory |-> FALSE,
                            verifiedEmails |-> <<>>]
            ELSE resp[r] = [status |-> 200, success |-> TRUE,
                            isCatchAll |-> FALSE, advisory |-> FALSE,
                            verifiedEmails |-> rq[r].validEmails]

\* the positions of the results of the request in slot r with valid=true
Positives(r) ==
    {k \in 1..Len(rq[r].results) : rq[r].results[k].value.valid}

EndedWithoutMx(r) ==
    /\ pc[r] = "done"
    /\ rq[r].company # NoDoc
    /\ MxLookup(rq[r].domain) # "records"

\* C18: a request whose MX lookup yields no records (an empty list, or no
\* data for the provided domain) ends with status 400 and has opened no
\* connection to a mail server.
C18_NoMxIsClientError ==
    \A r \in Reqs :
        EndedWithoutMx(r) => (resp[r].status = 400 /\ rq[r].smtp = 0)

\* the slot that the next request takes
NextSlot == IF Free("r1") THEN "r1" ELSE "r2"

\* the companies whose name matches the company name of the request
Named(cname) ==
    {i \in 1..Len(companies) : NameMatches(companies[i].name, cname)}

\* the guessed domains of the company name that have MX records
WithMx(cname) ==
    {i \in 1..Len(GuessDomains(cname)) :
        MxLookup(GuessDomains(cname)[i]) = "records"}

\* the request that has just arrived in slot r has its domain by the
\* precedence: provided, existing company, first guess with MX records, 400
DomainByPrecedence(r) ==
    LET b == rq'[r]
    IN  /\ b.provided # NoDomain =>
              (b.domain = trim(toLowerCase(b.provided)) /\ pc'[r] = "precheck")
        /\ (b.provided = NoDomain /\ Named(b.cname) # {}) =>
              /\ \E i \in Named(b.cname) : b.domain = companies[i].domain
              /\ pc'[r] = "precheck"
        /\ (b.provided = NoDomain /\ Named(b.cname) = {}
                                  /\ WithMx(b.cname) # {}) =>
              /\ \E i \in WithMx(b.cname) :
                    /\ b.domain = GuessDomains(b.cname)[i]
                    /\ \A j \in WithMx(b.cname) : i <= j
              /\ pc'[r] = "precheck"
        /\ (b.provided = NoDomain /\ Named(b.cname) = {}
                                  /\ WithMx(b.cname) = {}) =>
              /\ pc'[r] = "done"
              /\ resp'[r].status = 400
              /\ b.smtp = 0
              /\ UNCHANGED <<companies, patterns, persons, catchAll>>

SameKey(p, q) ==
    /\ toLowerCase(p.firstName) = toLowerCase(q.firstName)
    /\ toLowerCase(p.lastName) = toLowerCase(q.lastName)
    /\ toLowerCase(p.company) = toLowerCase(q.company)

\* C20: there is at most one Person record per (firstName, lastName,
\* company) key compared case-insensitively: a request whose names differ
\* only in letter case from an existing Person updates that Person.
C20_OnePersonPerKey ==
    \A i, j \in 1..Len(persons) :
        SameKey(persons[i], persons[j]) => i = j

\* the positions of the valid=true entries of a history
ValidEntries(history) == {k \in 1..Len(history) : history[k].valid}

\* the address of the last valid=true entry of a history
LastSuccess(history) ==
    history[CHOOSE k \in ValidEntries(history) :
                \A j \in ValidEntries(history) : j <= k].email

\* C21: a Person whose verifiedEmail is not null has as verifiedEmail the
\* address of the last valid=true entry of its allTestedEmails.
C21_VerifiedEmailIsLastSuccess ==
    \A p \in 1..Len(persons) :
        persons[p].verifiedEmail # <<"null">> =>
            /\ ValidEntries(persons[p].allTestedEmails) # {}
            /\ LastSuccess(persons[p].allTestedEmails)
                   = persons[p].verifiedEmail

\* one entry per address probed by the request in slot r, with the address,
\* its verdict and its reason
EntriesOf(r) ==
    [k \in 1..Len(rq[r].probed) |->
        [email |-> rq[r].probed[k],
         valid |-> RcptAccepted(rq[r].probed[k], rq[r].domain),
         reason |-> ProbeResultOf(rq[r].probed[k], rq[r].domain).reason]]

\* the persist step of the request in slot r has appended its entries to the
\* history of its Person and kept the earlier ones
HistoryAppended(r) ==
    LET old == rq[r].person
        before == IF old = NoDoc THEN <<>>
                  ELSE persons[old.id].allTestedEmails
        p == IF old = NoDoc THEN Len(persons') ELSE old.id
    IN  /\ Len(persons') >= 1
        /\ persons'[p].allTestedEmails = before \o EntriesOf(r)
        /\ (\A k \in 1..Len(rq[r].probed) :
               ~RcptAccepted(rq[r].probed[k], rq[r].domain))
           => persons'[p].verifiedEmail = <<"null">>

\* C22: the persist step of a request appends to the Person's allTestedEmails
\* exactly one entry per address probed in the request, each with the probed
\* address, its verdict and its reason, and keeps the earlier entries; when
\* every candidate was rejected the Person has verifiedEmail null.
C22_HistoryAppendOnly ==
    [][\A r \in Reqs :
          (pc[r] = "personSave" /\ pc'[r] = "done") => HistoryAppended(r)]_vars

\* the bijections of 1..n
Orders(n) ==
    {f \in [1..n -> 1..n] : \A i, j \in 1..n : f[i] = f[j] => i = j}

\* entry a of verifiedPatterns ranks before entry b
RanksBefore(a, b) ==
    \/ a.usageCount > b.usageCount
    \/ a.usageCount = b.usageCount /\ a.lastVerified >= b.lastVerified

\* emails starts with the expansions of the learned patterns by rank,
\* followed by generated expansions only, no more than ten of them
Ranked(emails, learnedPatterns, firstName, lastName, domain) ==
    LET n == Len(learnedPatterns)
        generated == generateEmailPatterns(firstName, lastName, domain)
    IN  /\ Len(emails) >= n
        /\ Len(emails) <= n + 10
        /\ \E f \in Orders(n) :
              /\ \A i \in 1..n :
                    emails[i] = expandPattern(learnedPatterns[f[i]].pattern,
                                              firstName, lastName)
              /\ \A i, j \in 1..n :
                    i < j => RanksBefore(learnedPatterns[f[i]],
                                         learnedPatterns[f[j]])
        /\ \A k \in (n + 1)..Len(emails) : Includes(generated, emails[k])

\* C23: the candidate list of a request starts with the expansions of the
\* company's learned patterns by usageCount descending, equal counts by
\* lastVerified descending, followed by the generated expansions, and has at
\* most (number of learned patterns + 10) entries.
C23_CandidatesRanked ==
    [][\A r \in Reqs :
          (pc[r] = "probe" /\ rq'[r].emails # <<>>) =>
              Ranked(rq'[r].emails, rq[r].company.verifiedPatterns,
                     rq[r].first, rq[r].last, rq[r].domain)]_vars

C31_CompanyMatchedByNameOrDomain ==
    \A r \in Reqs :
        rq[r].company # NoDoc =>
            \/ toLowerCase(rq[r].company.name) = toLowerCase(rq[r].cname)
            \/ rq[r].company.domain = rq[r].domain

\* C32: a request that has ended and in which no probe returned valid=true
\* (the MX lookup failed, or every candidate was rejected) has created or
\* modified no Company, Pattern or CatchAllDomain record.
C32_NoPositiveNoWrite ==
    \A r \in Reqs :
        (pc[r] = "done" /\ Positives(r) = {}) => rq[r].wrote = {}

\* C34: every candidate a request hands to the batch prober, and so every
\* address it probes, is a full address: a local part, "@" and the domain
\* the request resolved.
C34_CandidatesAreFullAddresses ==
    \A r \in Reqs :
        \A k \in 1..Len(rq[r].emails) :
            /\ IndexOf(rq[r].emails[k], "@") > 1
            /\ DomainPartOf(rq[r].emails[k]) = rq[r].domain

\* C35: every SMTP connection a request opens, those of the three random
\* probes of the catch-all detection included, is opened with a source
\* address acquired from the IP pool.
C35_EveryConnectionFromPool ==
    \A r \in Reqs : rq[r].smtp = rq[r].pooled

\* C37: a request that finishes its catch-all detection for a domain that
\* is recorded in CatchAllDomain at that moment treats the domain as
\* catch-all: it does not go on to learn a pattern and to respond with
\* success=true, also when the domain was recorded by another request while
\* its random probes were running.
C37_RecordedDomainTreatedAsCatchAll ==
    [][\A r \in Reqs :
          (/\ pc[r] = "detect"
           /\ pc'[r] # "detect"
           /\ rq[r].domain \in DOMAIN catchAll) =>
              pc'[r] = "markCatchAll"]_vars

(***************************************************************************)
(* SpecPattern: expand a declared template, then derive it back            *)
(***************************************************************************)

PatInit ==
    /\ ppc = "start"
    /\ pT \in TemplateSet
    /\ pFirst \in Names
    /\ pLast \in Names
    /\ pEmail = <<>>
    /\ pDerived = <<>>

PatExpand ==
    /\ ppc = "start"
    /\ pEmail' = expandPattern(pT, pFirst, pLast)
    /\ ppc' = "expanded"
    /\ UNCHANGED <<pT, pFirst, pLast, pDerived>>
    /\ UNCHANGED notPatVars

PatDerive ==
    /\ ppc = "expanded"
    /\ pDerived' = derivePatternFromEmail(pEmail, pFirst, pLast)
    /\ ppc' = "derived"
    /\ UNCHANGED <<pT, pFirst, pLast, pEmail>>
    /\ UNCHANGED notPatVars

PatNext ==
    \/ PatExpand
    \/ PatDerive

InitPattern == PatInit /\ SmtpIdle /\ PoolIdle /\ CtlIdle

SpecPattern == InitPattern /\ [][PatNext]_vars

\* the declared templates other than T that expand to the local-part of T
Colliding(T, f, l) ==
    {U \in TemplateSet \ {T} : expandPattern(U, f, l) = expandPattern(T, f, l)}

Matching(email, f, l) ==
    {i \in 1..Len(Templates) :
        expandPattern(Templates[i], f, l) = LocalPartOf(email)}

\* C29: when the local-part equals the expansion of more than one template,
\* derivePatternFromEmail returns the one that comes first in the declared
\* order.
C29_FirstDeclaredTemplateWins ==
    (ppc = "derived" /\ Matching(pEmail, pFirst, pLast) # {}) =>
        pDerived = Templates[CHOOSE i \in Matching(pEmail, pFirst, pLast) :
                                \A j \in Matching(pEmail, pFirst, pLast) :
                                    i <= j]

====
